---------------------------- MODULE Spec2Model ----------------------------
(***************************************************************************)
(* A model of the Bible reader (src/src/main.rs): the corpus loader        *)
(* (from_directories, read_testament_books, parse_book_file), the three    *)
(* query operations (get_verse, get_chapter, search) and the reader UI's   *)
(* frame handler (BibleApp::update).                                       *)
(*                                                                         *)
(* Text is modelled as a sequence of one-character strings, so that        *)
(* split_once, parse, to_lowercase and contains are computed character by  *)
(* character as the code computes them.                                    *)
(*                                                                         *)
(* Four specifications share the pure operators:                           *)
(*   SpecParse  parse_book_file, one loop iteration per step               *)
(*   SpecLoad   from_directories, one directory entry per step             *)
(*   SpecQuery  get_verse / get_chapter / search on a loaded corpus        *)
(*   SpecUI     BibleApp::new and BibleApp::update on a loaded corpus      *)
(***************************************************************************)
EXTENDS Integers, Sequences, FiniteSets, TLC

VARIABLES
    overflow_checks,   \* build profile: TRUE = integer overflow panics (debug)
    \* ---- parse_book_file ------------------------------------------------
    file,              \* the file's lines, each a line result: Ok(chars) or Err
    line_idx,          \* number of lines consumed by the `for` loop
    book,              \* the local `book` being built
    pstate,            \* "idle" | "parsing" | "done" (Ok(book)) | "panic"
    stderr,            \* the eprintln! diagnostics, in order
    \* ---- from_directories -----------------------------------------------
    fs,                \* the two testament directories
    lpc,               \* "idle" | "old_dir" | "old" | "new_dir" | "new" | "done"
    entry_idx,         \* number of entries consumed in the current directory
    bible,             \* the Bible: its `books` vector
    load_result,       \* pending | Ok(bible) | Err(io error) | panic
    opened,            \* File::open calls made so far: <<testament, index>>
    \* ---- queries ----------------------------------------------------------
    q_call,            \* the last query call and its arguments
    q_result,          \* what it returned
    \* ---- BibleApp ---------------------------------------------------------
    selected_book,
    selected_chapter,
    chapter_text,
    current_chapter_verses,
    search_query,
    search_results,
    navigate_to,
    frame_pc,          \* "off" | "idle" (between frames) | "drawn" (widgets done)
    frame_click        \* the search result clicked in the current frame, or None

vars == << overflow_checks, file, line_idx, book, pstate, stderr,
           fs, lpc, entry_idx, bible, load_result, opened,
           q_call, q_result,
           selected_book, selected_chapter, chapter_text, current_chapter_verses,
           search_query, search_results, navigate_to, frame_pc, frame_click >>

parseVars == << file, line_idx, book, pstate, stderr >>
loadVars  == << fs, lpc, entry_idx, load_result, opened >>
queryVars == << q_call, q_result >>
uiVars    == << selected_book, selected_chapter, chapter_text, current_chapter_verses,
                search_query, search_results, navigate_to, frame_pc, frame_click >>

None == [some |-> FALSE]
Some(x) == [some |-> TRUE, val |-> x]

(***************************************************************************)
(* Bounds of the model.                                                    *)
(***************************************************************************)
MaxLines == 3
MaxEntries == 2
MaxCorpusEntries == 3
MaxUIEntries == 2
MaxQueryLen == 2

(***************************************************************************)
(* Strings.                                                                *)
(***************************************************************************)

\* str::split_once(delim): the parts before and after the FIRST delim.
RECURSIVE find(_, _, _)
find(s, c, i) ==
    IF i > Len(s) THEN 0
    ELSE IF s[i] = c THEN i
    ELSE find(s, c, i + 1)

split_once(s, c) ==
    LET i == find(s, c, 1) IN
    IF i = 0 THEN None
    ELSE Some([head |-> SubSeq(s, 1, i - 1), tail |-> SubSeq(s, i + 1, Len(s))])

Digits == <<"0", "1", "2", "3", "4", "5", "6", "7", "8", "9">>

IsDigit(c) == \E d \in 1..10 : Digits[d] = c

DigitVal(c) == (CHOOSE d \in 1..10 : Digits[d] = c) - 1

\* u32::MAX = 4294967295, digit by digit (it does not fit the checker's integers).
U32MaxDigits == <<4, 2, 9, 4, 9, 6, 7, 2, 9, 5>>

RECURSIVE StripZeros(_)
StripZeros(ds) ==
    IF ds # <<>> /\ Head(ds) = 0 THEN StripZeros(Tail(ds)) ELSE ds

RECURSIVE LexLeq(_, _)
LexLeq(a, b) ==
    IF a = <<>> THEN TRUE
    ELSE IF Head(a) # Head(b) THEN Head(a) < Head(b)
    ELSE LexLeq(Tail(a), Tail(b))

\* Whether the decimal number with these digits is <= u32::MAX.
FitsU32(ds) ==
    LET z == StripZeros(ds) IN
    \/ Len(z) < Len(U32MaxDigits)
    \/ Len(z) = Len(U32MaxDigits) /\ LexLeq(z, U32MaxDigits)

RECURSIVE Horner(_, _)
Horner(ds, acc) ==
    IF ds = <<>> THEN acc ELSE Horner(Tail(ds), acc * 10 + Head(ds))

\* str::parse::<u32>(): an optional '+', then one or more decimal digits, the
\* value at most u32::MAX; anything else is Err.
parse_u32(s) ==
    LET body == IF s # <<>> /\ Head(s) = "+" THEN Tail(s) ELSE s
        ds   == [i \in 1..Len(body) |-> DigitVal(body[i])]
    IN  IF body = <<>> THEN None
        ELSE IF \E i \in 1..Len(body) : ~IsDigit(body[i]) THEN None
        ELSE IF ~FitsU32(ds) THEN None
        ELSE Some(Horner(ds, 0))

unwrap_or(opt, default) == IF opt.some THEN opt.val ELSE default

(***************************************************************************)
(* The lines a work file is made of.  Every shape the loop body tells      *)
(* apart is present.                                                       *)
(***************************************************************************)
\* "1:1 In it": chapter 1, verse 1; the content has a space
L_1_1 == <<"1", ":", "1", " ", "I", "n", " ", "i", "t">>
\* "1:2 a:b": chapter 1, verse 2; the content has a colon
L_1_2 == <<"1", ":", "2", " ", "a", ":", "b">>
\* "3:1 Ab": chapter 3: leaves a gap
L_3_1 == <<"3", ":", "1", " ", "A", "b">>
\* "3:1 B a": chapter 3, verse 1 again
L_3_1b == <<"3", ":", "1", " ", "B", " ", "a">>
\* "2:1 ": chapter 2, empty content
L_2_1 == <<"2", ":", "1", " ">>
\* "+2:7 p": a '+' sign parses: chapter 2
L_plus == <<"+", "2", ":", "7", " ", "p">>
\* "1:y z": the verse number does not parse: verse 0
L_1_y == <<"1", ":", "y", " ", "z">>
\* "0:1 z": chapter 0
L_0_1 == <<"0", ":", "1", " ", "z">>
\* "x:1 z": the chapter number does not parse: chapter 0
L_x_1 == <<"x", ":", "1", " ", "z">>
\* "4294967296:1 z": the chapter number exceeds u32::MAX: chapter 0
L_big == <<"4", "2", "9", "4", "9", "6", "7", "2", "9", "6", ":", "1", " ", "z">>
\* "garbage te:xt": a space, and no colon before it
L_garbage == <<"g", "a", "r", "b", "a", "g", "e", " ", "t", "e", ":", "x", "t">>
\* " 1:1 a": a leading space: the token before it is empty
L_lead == <<" ", "1", ":", "1", " ", "a">>
\* "": no space at all
L_empty == <<>>
\* "1:1": a locator and no space
L_bare == <<"1", ":", "1">>

LineOk(s) == [ok |-> TRUE, line |-> s]
LineErr == [ok |-> FALSE]

Lines == { L_1_1, L_1_2, L_3_1, L_3_1b, L_2_1,
           L_plus, L_1_y, L_0_1, L_x_1, L_big, L_garbage, L_lead, L_empty, L_bare }

LineResults == { LineOk(s) : s \in Lines } \cup { LineErr }

SeqsUpTo(S, n) == UNION { [1..k -> S] : k \in 0..n }

Files == SeqsUpTo(LineResults, MaxLines)

(***************************************************************************)
(* parse_book_file                                                         *)
(***************************************************************************)
Verse(b, c, v, t) == [book |-> b, chapter |-> c, verse_number |-> v, text |-> t]
Chapter(n, vs) == [number |-> n, verses |-> vs]
Book(n, t, cs) == [name |-> n, testament |-> t, chapters |-> cs]

\* Mutant of ensure_chapters: `if` in place of `while`, one chapter at most.
ensure_chapters_once(chapters, chapter_num) ==
    IF Len(chapters) < chapter_num
    THEN Append(chapters, [number |-> Len(chapters) + 1, verses |-> <<>>])
    ELSE chapters

\* while book.chapters.len() < chapter_num { push(Chapter { number: len + 1, .. }) }
RECURSIVE ensure_chapters(_, _)
ensure_chapters(chapters, chapter_num) ==
    IF Len(chapters) < chapter_num
    THEN ensure_chapters(Append(chapters, Chapter(Len(chapters) + 1, <<>>)), chapter_num)
    ELSE chapters

\* chapter_num as usize - 1.  At 0 the subtraction overflows: a panic with
\* overflow checks on, usize::MAX (beyond every Vec length) with them off.
chapter_index(chapter_num, checks) ==
    IF chapter_num >= 1 THEN [panic |-> FALSE, wrapped |-> FALSE, idx |-> chapter_num - 1]
    ELSE IF checks THEN [panic |-> TRUE, wrapped |-> FALSE, idx |-> 0]
    ELSE [panic |-> FALSE, wrapped |-> TRUE, idx |-> 0]

\* chapter_idx < book.chapters.len()
index_in_bounds(ci, len) == ~ci.wrapped /\ ci.idx < len

push_verse(chapters, idx, verse) ==
    [chapters EXCEPT ![idx + 1].verses = Append(@, verse)]

\* The eprintln! lines of parse_book_file.
ReadError(n) == [kind |-> "read_error", line |-> n]
Malformed(n, line) == [kind |-> "malformed", line |-> n, text |-> line]

\* The result of one iteration of the loop: the book after it, what it
\* printed, and whether it panicked.
Iter(b, diag, panic) == [book |-> b, diag |-> diag, panic |-> panic]

\* Err(e) => { eprintln!("Error reading line ..."); continue; }
read_error_branch(b, idx) == Iter(b, <<ReadError(idx + 1)>>, FALSE)

\* line.split_once(' ') is None: the `if let` has no else.
no_space_branch(b) == Iter(b, <<>>, FALSE)

\* Mutant of malformed_branch: the line is kept as a verse of a new chapter.
malformed_branch_kept(b, idx, line) ==
    [book |-> [b EXCEPT !.chapters =
                 Append(@, [number |-> Len(@) + 1,
                            verses |-> <<[book |-> b.name, chapter |-> Len(@) + 1,
                                          verse_number |-> 0, text |-> line]>>])],
     diag |-> <<[kind |-> "malformed", line |-> idx + 1, text |-> line]>>,
     panic |-> FALSE]

\* Mutant of malformed_branch: the warning is not printed.
malformed_branch_silent(b, idx, line) ==
    [book |-> b, diag |-> <<>>, panic |-> FALSE]

\* reference.split_once(':') is None: eprintln!("Warning: Malformed verse ...").
malformed_branch(b, idx, line) == Iter(b, <<Malformed(idx + 1, line)>>, FALSE)

\* Both splits matched: grow the chapters, then store the verse.
record_branch(b, chapter_str, verse_str, text, checks) ==
    LET chapter_num == unwrap_or(parse_u32(chapter_str), 0)
        verse_num   == unwrap_or(parse_u32(verse_str), 0)
        grown       == ensure_chapters(b.chapters, chapter_num)
        ci          == chapter_index(chapter_num, checks)
    IN  IF ci.panic
        THEN Iter([b EXCEPT !.chapters = grown], <<>>, TRUE)
        ELSE IF index_in_bounds(ci, Len(grown))
        THEN Iter([b EXCEPT !.chapters =
                     push_verse(grown, ci.idx, Verse(b.name, chapter_num, verse_num, text))],
                  <<>>, FALSE)
        ELSE Iter([b EXCEPT !.chapters = grown], <<>>, FALSE)

\* One iteration of `for (line_idx, line_result) in reader.lines().enumerate()`.
loop_body(b, line_result, idx, checks) ==
    IF ~line_result.ok THEN read_error_branch(b, idx)
    ELSE
    LET line == line_result.line
        sp   == split_once(line, " ")
    IN  IF ~sp.some THEN no_space_branch(b)
        ELSE
        LET reference == sp.val.head
            text      == sp.val.tail
            rc        == split_once(reference, ":")
        IN  IF ~rc.some THEN malformed_branch(b, idx, line)
            ELSE record_branch(b, rc.val.head, rc.val.tail, text, checks)

\* The whole loop over a file's lines, from line number idx + 1 on.
RECURSIVE parse_lines(_, _, _, _)
parse_lines(b, lines, idx, checks) ==
    IF idx >= Len(lines) THEN [book |-> b, panic |-> FALSE]
    ELSE LET r == loop_body(b, lines[idx + 1], idx, checks) IN
         IF r.panic THEN [book |-> r.book, panic |-> TRUE]
         ELSE parse_lines(r.book, lines, idx + 1, checks)

\* parse_book_file on a file that opens: Ok(book), or a panic.
parse_book_file(lines, book_name, testament, checks) ==
    parse_lines(Book(book_name, testament, <<>>), lines, 0, checks)

(***************************************************************************)
(* SpecParse: parse_book_file on one file, one loop iteration per step.    *)
(***************************************************************************)
LoadIdle ==
    /\ fs = <<>>
    /\ lpc = "idle"
    /\ entry_idx = 0
    /\ load_result = [tag |-> "pending"]
    /\ opened = <<>>

QueryIdle ==
    /\ q_call = None
    /\ q_result = None

UIIdle ==
    /\ selected_book = <<>>
    /\ selected_chapter = 0
    /\ chapter_text = <<>>
    /\ current_chapter_verses = <<>>
    /\ search_query = <<>>
    /\ search_results = <<>>
    /\ navigate_to = None
    /\ frame_pc = "off"
    /\ frame_click = None

ParseIdle ==
    /\ file = <<>>
    /\ line_idx = 0
    /\ book = None
    /\ pstate = "idle"
    /\ stderr = <<>>

\* File::open succeeded and `book` was created with no chapters.
InitParse ==
    /\ overflow_checks \in BOOLEAN
    /\ file \in Files
    /\ line_idx = 0
    /\ book = Book("Genesis", "Old", <<>>)
    /\ pstate = "parsing"
    /\ stderr = <<>>
    /\ bible = <<>>
    /\ LoadIdle /\ QueryIdle /\ UIIdle

\* The next line of the file goes through the loop body.
ParseLine ==
    /\ pstate = "parsing"
    /\ line_idx < Len(file)
    /\ LET r == loop_body(book, file[line_idx + 1], line_idx, overflow_checks) IN
        /\ book' = r.book
        /\ stderr' = stderr \o r.diag
        /\ pstate' = IF r.panic THEN "panic" ELSE "parsing"
        /\ line_idx' = IF r.panic THEN line_idx ELSE line_idx + 1
    /\ UNCHANGED << overflow_checks, file, bible, loadVars, queryVars, uiVars >>

\* The lines are exhausted: Ok(book).
ParseReturn ==
    /\ pstate = "parsing"
    /\ line_idx = Len(file)
    /\ pstate' = "done"
    /\ UNCHANGED << overflow_checks, file, line_idx, book, stderr, bible,
                    loadVars, queryVars, uiVars >>

NextParse == ParseLine \/ ParseReturn

SpecParse == InitParse /\ [][NextParse]_vars

(***************************************************************************)
(* The canonical order and the sort of from_directories.                   *)
(***************************************************************************)
\* The `books` vector of get_standard_book_order.
StandardBooks ==
    <<
       "Genesis", "Exodus", "Leviticus", "Numbers", "Deuteronomy",
       "Joshua", "Judges", "Ruth", "1Samuel", "2Samuel",
       "1Kings", "2Kings", "1Chronicles", "2Chronicles", "Ezra",
       "Nehemiah", "Esther", "Job", "Psalms", "Proverbs",
       "Ecclesiastes", "SongofSolomon", "Isaiah", "Jeremiah", "Lamentations",
       "Ezekiel", "Daniel", "Hosea", "Joel", "Amos",
       "Obadiah", "Jonah", "Micah", "Nahum", "Habakkuk",
       "Zephaniah", "Haggai", "Zechariah", "Malachi", "Matthew",
       "Mark", "Luke", "John", "Acts", "Romans",
       "1Corinthians", "2Corinthians", "Galatians", "Ephesians", "Philippians",
       "Colossians", "1Thessalonians", "2Thessalonians", "1Timothy", "2Timothy",
       "Titus", "Philemon", "Hebrews", "James", "1Peter",
       "2Peter", "1John", "2John", "3John", "Jude",
       "Revelation"
    >>

\* order_map: each name's index in the vector (0-based), None when absent.
get_standard_book_order(name) ==
    IF \E i \in 1..Len(StandardBooks) : StandardBooks[i] = name
    THEN Some((CHOOSE i \in 1..Len(StandardBooks) : StandardBooks[i] = name) - 1)
    ELSE None

\* The rank of a name that is not in the table.
UnknownRank == 999

\* Mutant of book_rank: a name that is not in the table ranks first.
book_rank_zero(name) ==
    IF get_standard_book_order(name).some THEN get_standard_book_order(name).val ELSE 0

\* book_order.get(&a.name).unwrap_or(&999)
book_rank(name) == unwrap_or(get_standard_book_order(name), UnknownRank)

\* a_order.cmp(b_order) is Greater
rank_greater(a, b) == book_rank(a.name) > book_rank(b.name)

\* Where a stable sort puts x in a sorted vector: after every element that
\* does not compare greater than x.
RECURSIVE insert_sorted(_, _)
insert_sorted(sorted, x) ==
    IF sorted = <<>> THEN <<x>>
    ELSE IF rank_greater(sorted[Len(sorted)], x)
    THEN Append(insert_sorted(SubSeq(sorted, 1, Len(sorted) - 1), x), sorted[Len(sorted)])
    ELSE Append(sorted, x)

\* bible.books.sort_by(..): slice::sort_by is stable.
RECURSIVE sort_by_rank(_)
sort_by_rank(books) ==
    IF books = <<>> THEN <<>>
    ELSE insert_sorted(sort_by_rank(SubSeq(books, 1, Len(books) - 1)), books[Len(books)])

(***************************************************************************)
(* The file system: two directories, each readable or not, as the          *)
(* sequence of entries read_dir yields.                                    *)
(***************************************************************************)
\* A regular file named <stem>.<ext> (just <stem> when ext is empty).
FileEntry(stem, ext, openable, lines) ==
    [err |-> FALSE, stem |-> stem, ext |-> ext, is_file |-> TRUE,
     openable |-> openable, lines |-> lines]

\* A subdirectory.
DirEntry(stem) ==
    [err |-> FALSE, stem |-> stem, ext |-> "", is_file |-> FALSE,
     openable |-> FALSE, lines |-> <<>>]

\* An entry that read_dir's iterator yields as Err.
ErrEntry == [err |-> TRUE]

DSStore == FileEntry(".DS_Store", "", TRUE, <<>>)

Dir(readable, entries) == [readable |-> readable, entries |-> entries]

\* File contents.
Content_a == <<LineOk(L_1_1), LineOk(L_1_2)>>
Content_b == <<LineOk(L_3_1), LineOk(L_garbage), LineOk(L_3_1b), LineOk(L_1_1)>>
Content_z == <<LineOk(L_1_1), LineOk(L_0_1)>>

LoadEntries ==
    { FileEntry("Genesis", "txt", TRUE, Content_a),
      FileEntry("Genesis", "md", TRUE, Content_b),
      FileEntry("Exodus", "txt", TRUE, Content_a),
      FileEntry("Notes", "txt", TRUE, Content_a),
      FileEntry("Apocrypha", "txt", TRUE, Content_b),
      FileEntry("Matthew", "txt", TRUE, Content_z),
      FileEntry("Mark", "txt", FALSE, <<>>),
      DirEntry("sub"),
      DSStore,
      ErrEntry }

\* A directory holds no two entries of the same file name.
DistinctNames(es) ==
    \A i, j \in 1..Len(es) :
        (i < j /\ ~es[i].err /\ ~es[j].err) =>
            (es[i].stem # es[j].stem \/ es[i].ext # es[j].ext)

\* The enumerations of a directory of exactly k, and of at most n, entries
\* drawn from the set E.
Listings(E, k) == { es \in [1..k -> E] : DistinctNames(es) }

ListingsUpTo(E, n) == UNION { Listings(E, k) : k \in 0..n }

\* The file systems with at most n entries in all, drawn from the set E.
FileSystems(E, n) ==
    { [old |-> o, new |-> w] :
        <<o, w>> \in
          { <<Dir(FALSE, <<>>), Dir(FALSE, <<>>)>> }
          \cup { <<Dir(FALSE, <<>>), Dir(TRUE, es)>> : es \in ListingsUpTo(E, n) }
          \cup { <<Dir(TRUE, es), Dir(FALSE, <<>>)>> : es \in ListingsUpTo(E, n) }
          \cup UNION { { <<Dir(TRUE, a), Dir(TRUE, b)>> :
                            a \in Listings(E, k), b \in ListingsUpTo(E, n - k) } : k \in 0..n } }

(***************************************************************************)
(* read_testament_books                                                    *)
(***************************************************************************)
\* file_path.file_name() == ".DS_Store"
is_ds_store(e) == e.stem = ".DS_Store" /\ e.ext = ""

\* What one iteration of read_testament_books' loop does with an entry:
\* "skip" it, push a "book", or end the load with "io_error" or "panic".
read_entry(e, testament, checks) ==
    IF e.err THEN [tag |-> "io_error", opens |-> FALSE]
    ELSE IF is_ds_store(e) THEN [tag |-> "skip", opens |-> FALSE]
    ELSE IF ~e.is_file THEN [tag |-> "skip", opens |-> FALSE]
    ELSE IF ~e.openable THEN [tag |-> "io_error", opens |-> TRUE]
    ELSE LET r == parse_book_file(e.lines, e.stem, testament, checks) IN
         IF r.panic THEN [tag |-> "panic", opens |-> TRUE]
         ELSE [tag |-> "book", opens |-> TRUE, book |-> r.book]

(***************************************************************************)
(* SpecLoad: from_directories, one directory entry per step.               *)
(***************************************************************************)
Pending == [tag |-> "pending"]

\* from_directories is called on a file system of at most n entries drawn
\* from E: `bible` is created with no books.
LoadStart(E, n) ==
    /\ overflow_checks \in BOOLEAN
    /\ fs \in FileSystems(E, n)
    /\ lpc = "old_dir"
    /\ entry_idx = 0
    /\ bible = <<>>
    /\ load_result = Pending
    /\ opened = <<>>
    /\ ParseIdle

InitLoad == LoadStart(LoadEntries, MaxEntries) /\ QueryIdle /\ UIIdle

Testament == IF lpc \in {"old_dir", "old"} THEN "Old" ELSE "New"

CurrentDir == IF lpc \in {"old_dir", "old"} THEN fs.old ELSE fs.new

\* fs::read_dir(testament_path)? fails: Err(e) goes up to the caller.
ReadDirFails ==
    /\ lpc \in {"old_dir", "new_dir"}
    /\ ~CurrentDir.readable
    /\ load_result' = [tag |-> "io_error"]
    /\ lpc' = "done"
    /\ UNCHANGED << overflow_checks, fs, entry_idx, bible, opened,
                    parseVars, queryVars, uiVars >>

\* fs::read_dir(testament_path)? succeeds: the loop starts.
ReadDirOk ==
    /\ lpc \in {"old_dir", "new_dir"}
    /\ CurrentDir.readable
    /\ lpc' = IF lpc = "old_dir" THEN "old" ELSE "new"
    /\ entry_idx' = 0
    /\ UNCHANGED << overflow_checks, fs, bible, load_result, opened,
                    parseVars, queryVars, uiVars >>

\* One iteration of read_testament_books' loop.
ReadEntry ==
    /\ lpc \in {"old", "new"}
    /\ entry_idx < Len(CurrentDir.entries)
    /\ LET r == read_entry(CurrentDir.entries[entry_idx + 1], Testament, overflow_checks) IN
        /\ opened' = IF r.opens THEN Append(opened, <<Testament, entry_idx + 1>>) ELSE opened
        /\ bible' = IF r.tag = "book" THEN Append(bible, r.book) ELSE bible
        /\ load_result' = IF r.tag \in {"io_error", "panic"} THEN [tag |-> r.tag]
                          ELSE load_result
        /\ lpc' = IF r.tag \in {"io_error", "panic"} THEN "done" ELSE lpc
        /\ entry_idx' = entry_idx + 1
    /\ UNCHANGED << overflow_checks, fs, parseVars, queryVars, uiVars >>

\* The Old Testament directory is exhausted: on to the New Testament.
EndOld ==
    /\ lpc = "old"
    /\ entry_idx = Len(fs.old.entries)
    /\ lpc' = "new_dir"
    /\ entry_idx' = 0
    /\ UNCHANGED << overflow_checks, fs, bible, load_result, opened,
                    parseVars, queryVars, uiVars >>

\* The New Testament directory is exhausted: sort the books, Ok(bible).
SortAndReturn ==
    /\ lpc = "new"
    /\ entry_idx = Len(fs.new.entries)
    /\ bible' = sort_by_rank(bible)
    /\ load_result' = [tag |-> "ok", books |-> sort_by_rank(bible)]
    /\ lpc' = "done"
    /\ UNCHANGED << overflow_checks, fs, entry_idx, opened,
                    parseVars, queryVars, uiVars >>

NextLoad == ReadDirFails \/ ReadDirOk \/ ReadEntry \/ EndOld \/ SortAndReturn

SpecLoad == InitLoad /\ [][NextLoad]_vars

(***************************************************************************)
(* The queries.  A returned reference (&Verse, &Chapter) is modelled as    *)
(* the position it points at: <<book, chapter, verse>> or <<book, chapter>>*)
(* (1-based indices into the vectors).                                     *)
(***************************************************************************)
UpperCase == <<"A", "B", "C", "D", "E", "F", "G", "H", "I", "J", "K", "L", "M",
               "N", "O", "P", "Q", "R", "S", "T", "U", "V", "W", "X", "Y", "Z">>
LowerCase == <<"a", "b", "c", "d", "e", "f", "g", "h", "i", "j", "k", "l", "m",
               "n", "o", "p", "q", "r", "s", "t", "u", "v", "w", "x", "y", "z">>

\* char::to_lowercase on the ASCII characters of the model's texts.
lower_char(c) ==
    IF \E k \in 1..Len(UpperCase) : UpperCase[k] = c
    THEN LowerCase[CHOOSE k \in 1..Len(UpperCase) : UpperCase[k] = c]
    ELSE c

\* str::to_lowercase
to_lowercase(s) == [k \in 1..Len(s) |-> lower_char(s[k])]

\* str::contains(&pat): pat occurs at some offset.
contains(s, pat) ==
    \E off \in 0..(Len(s) - Len(pat)) : SubSeq(s, off + 1, off + Len(pat)) = pat

\* Iterator::find: the index of the first element that passes, 0 if none.
RECURSIVE find_first(_, _, _)
find_first(xs, Test(_), k) ==
    IF k > Len(xs) THEN 0
    ELSE IF Test(xs[k]) THEN k
    ELSE find_first(xs, Test, k + 1)

\* The `for book in &self.books` loop of get_verse, from book b on.
RECURSIVE get_verse_from(_, _, _, _, _)
get_verse_from(books, b, book_name, chapter, verse) ==
    IF b > Len(books) THEN None
    ELSE IF books[b].name = book_name
    THEN LET IsChapter(c) == c.number = chapter
             c == find_first(books[b].chapters, IsChapter, 1)
         IN  IF c # 0
             THEN LET IsVerse(v) == v.verse_number = verse
                      v == find_first(books[b].chapters[c].verses, IsVerse, 1)
                  IN  IF v # 0 THEN Some(<<b, c, v>>) ELSE None
             ELSE get_verse_from(books, b + 1, book_name, chapter, verse)
    ELSE get_verse_from(books, b + 1, book_name, chapter, verse)

get_verse(books, book_name, chapter, verse) ==
    get_verse_from(books, 1, book_name, chapter, verse)

\* Mutant of get_chapter_from: the search goes on to the next work of the
\* name when this one has no chapter of that number.
RECURSIVE get_chapter_any_work(_, _, _, _)
get_chapter_any_work(books, b, book_name, chapter) ==
    IF b > Len(books) THEN None
    ELSE IF books[b].name = book_name
    THEN LET IsChapter(c) == c.number = chapter
             c == find_first(books[b].chapters, IsChapter, 1)
         IN  IF c # 0 THEN Some(<<b, c>>)
             ELSE get_chapter_any_work(books, b + 1, book_name, chapter)
    ELSE get_chapter_any_work(books, b + 1, book_name, chapter)

\* The `for book in &self.books` loop of get_chapter, from book b on.
RECURSIVE get_chapter_from(_, _, _, _)
get_chapter_from(books, b, book_name, chapter) ==
    IF b > Len(books) THEN None
    ELSE IF books[b].name = book_name
    THEN LET IsChapter(c) == c.number = chapter
             c == find_first(books[b].chapters, IsChapter, 1)
         IN  IF c # 0 THEN Some(<<b, c>>) ELSE None
    ELSE get_chapter_from(books, b + 1, book_name, chapter)

get_chapter(books, book_name, chapter) ==
    get_chapter_from(books, 1, book_name, chapter)

\* The verse a reference points at.
verse_at(books, r) == books[r[1]].chapters[r[2]].verses[r[3]]

\* The three nested loops of search: the references to all verses in the
\* order the loops visit them.
RECURSIVE visit_verses(_, _, _, _)
visit_verses(books, b, c, v) ==
    IF b > Len(books) THEN <<>>
    ELSE IF c > Len(books[b].chapters) THEN visit_verses(books, b + 1, 1, 1)
    ELSE IF v > Len(books[b].chapters[c].verses) THEN visit_verses(books, b, c + 1, 1)
    ELSE <<<<b, c, v>>>> \o visit_verses(books, b, c, v + 1)

\* Mutant of search: the verse text is not lower-cased.
search_verse_case(books, query) ==
    LET q == to_lowercase(query)
        Matches(r) == contains(verse_at(books, r).text, q)
    IN  SelectSeq(visit_verses(books, 1, 1, 1), Matches)

\* search: the references pushed to `results`, in push order.
search(books, query) ==
    LET q == to_lowercase(query)
        Matches(r) == contains(to_lowercase(verse_at(books, r).text), q)
    IN  SelectSeq(visit_verses(books, 1, 1, 1), Matches)

(***************************************************************************)
(* SpecQuery: from_directories, then the queries on the corpus it returned.*)
(***************************************************************************)
Content_c == <<LineOk(L_2_1), LineOk(L_1_y)>>

CorpusEntries ==
    { FileEntry("Genesis", "txt", TRUE, Content_a),
      FileEntry("Genesis", "md", TRUE, Content_b),
      FileEntry("Exodus", "txt", TRUE, Content_c),
      FileEntry("Notes", "txt", TRUE, Content_a) }

QueryNames == { "Genesis", "Exodus", "Notes", "Mark" }
MaxChapterArg == 4
MaxVerseArg == 2
QueryChars == { "a", "B", "i" }
Queries == SeqsUpTo(QueryChars, MaxQueryLen)

\* from_directories returned Ok(bible): main goes on with the corpus.
LoadedOk == lpc = "done" /\ load_result.tag = "ok"

InitQuery ==
    /\ overflow_checks \in BOOLEAN
    /\ LoadStart(CorpusEntries, MaxCorpusEntries)
    /\ q_call = None
    /\ q_result = None
    /\ UIIdle

CallGetVerse ==
    /\ LoadedOk
    /\ ~q_call.some
    /\ \E n \in QueryNames, c \in 0..MaxChapterArg, v \in 0..MaxVerseArg :
        /\ q_call' = Some([op |-> "get_verse", book_name |-> n, chapter |-> c, verse |-> v])
        /\ q_result' = get_verse(bible, n, c, v)
    /\ UNCHANGED << overflow_checks, bible, parseVars, loadVars, uiVars >>

CallGetChapter ==
    /\ LoadedOk
    /\ ~q_call.some
    /\ \E n \in QueryNames, c \in 0..MaxChapterArg :
        /\ q_call' = Some([op |-> "get_chapter", book_name |-> n, chapter |-> c])
        /\ q_result' = get_chapter(bible, n, c)
    /\ UNCHANGED << overflow_checks, bible, parseVars, loadVars, uiVars >>

CallSearch ==
    /\ LoadedOk
    /\ ~q_call.some
    /\ \E q \in Queries :
        /\ q_call' = Some([op |-> "search", query |-> q])
        /\ q_result' = search(bible, q)
    /\ UNCHANGED << overflow_checks, bible, parseVars, loadVars, uiVars >>

\* The caller is done with the result (a borrow of the corpus) and drops it.
QueryReturn ==
    /\ q_call.some
    /\ q_call' = None
    /\ q_result' = None
    /\ UNCHANGED << overflow_checks, bible, parseVars, loadVars, uiVars >>

NextQuery == NextLoad \/ CallGetVerse \/ CallGetChapter \/ CallSearch \/ QueryReturn

SpecQuery == InitQuery /\ [][NextQuery]_vars

(***************************************************************************)
(* BibleApp                                                                *)
(***************************************************************************)
\* u32's Display: the decimal digits.
RECURSIVE to_string(_)
to_string(n) ==
    IF n < 10 THEN <<Digits[n + 1]>>
    ELSE to_string(n \div 10) \o <<Digits[(n % 10) + 1]>>

\* format!("{} {}\n\n", verse.verse_number, verse.text) for every verse.
RECURSIVE format_chapter(_)
format_chapter(verses) ==
    IF verses = <<>> THEN <<>>
    ELSE to_string(Head(verses).verse_number) \o <<" ">> \o Head(verses).text
         \o <<"\n", "\n">> \o format_chapter(Tail(verses))

\* "Chapter not found"
ChapterNotFound == <<"C", "h", "a", "p", "t", "e", "r", " ", "n", "o", "t", " ", "f", "o", "u", "n", "d">>

\* The chapter a reference points at.
chapter_at(books, r) == books[r[1]].chapters[r[2]]

\* BibleApp::new: the display fields for the first book's chapter 1.
BibleApp_new(books) ==
    LET default_book == IF books = <<>> THEN "Genesis" ELSE books[1].name
        r == get_chapter(books, default_book, 1)
    IN  [selected_book |-> default_book,
         selected_chapter |-> 1,
         current_chapter_verses |-> IF r.some THEN chapter_at(books, r.val).verses ELSE <<>>,
         chapter_text |-> IF r.some THEN format_chapter(chapter_at(books, r.val).verses)
                          ELSE <<>>]

\* update_chapter_display: the two display fields for the selection.
update_chapter_display(books, book_name, chapter) ==
    LET r == get_chapter(books, book_name, chapter) IN
    IF r.some
    THEN [current_chapter_verses |-> chapter_at(books, r.val).verses,
          chapter_text |-> format_chapter(chapter_at(books, r.val).verses)]
    ELSE [current_chapter_verses |-> <<>>, chapter_text |-> ChapterNotFound]

\* results.iter().map(|v| (*v).clone()).collect()
clone_results(books, refs) == [k \in 1..Len(refs) |-> verse_at(books, refs[k])]

(***************************************************************************)
(* SpecUI: from_directories, then main builds the BibleApp and eframe      *)
(* calls update once per frame.  A frame is two steps: the widgets, with   *)
(* at most one of them clicked or edited, then the deferred navigation.    *)
(***************************************************************************)
\* What the user may type in the search box.
UIQueries == { <<>>, <<"B">>, <<"i", "t">> }

InitUI ==
    /\ LoadStart(CorpusEntries, MaxUIEntries)
    /\ QueryIdle
    /\ selected_book = <<>>
    /\ selected_chapter = 0
    /\ chapter_text = <<>>
    /\ current_chapter_verses = <<>>
    /\ search_query = <<>>
    /\ search_results = <<>>
    /\ navigate_to = None
    /\ frame_pc = "off"
    /\ frame_click = None

\* main: BibleApp::new(bible), then app.update_chapter_display().
AppStart ==
    /\ LoadedOk
    /\ frame_pc = "off"
    /\ LET app == BibleApp_new(bible)
           d   == update_chapter_display(bible, app.selected_book, app.selected_chapter)
       IN  /\ selected_book' = app.selected_book
           /\ selected_chapter' = app.selected_chapter
           /\ current_chapter_verses' = d.current_chapter_verses
           /\ chapter_text' = d.chapter_text
    /\ search_query' = <<>>
    /\ search_results' = <<>>
    /\ navigate_to' = None
    /\ frame_pc' = "idle"
    /\ frame_click' = None
    /\ UNCHANGED << overflow_checks, bible, parseVars, loadVars, queryVars >>

\* A frame with no input.
FrameNoInput ==
    /\ frame_pc = "idle"
    /\ frame_pc' = "drawn"
    /\ frame_click' = None
    /\ UNCHANGED << selected_book, selected_chapter, chapter_text, current_chapter_verses,
                    search_query, search_results, navigate_to >>
    /\ UNCHANGED << overflow_checks, bible, parseVars, loadVars, queryVars >>

\* The user picks a book in the "Book" ComboBox.
FrameSelectBook ==
    /\ frame_pc = "idle"
    /\ \E b \in 1..Len(bible) : selected_book' = bible[b].name
    /\ frame_pc' = "drawn"
    /\ frame_click' = None
    /\ UNCHANGED << selected_chapter, chapter_text, current_chapter_verses,
                    search_query, search_results, navigate_to >>
    /\ UNCHANGED << overflow_checks, bible, parseVars, loadVars, queryVars >>

\* The user picks a chapter in the "Chapter" ComboBox: 1..=chapter_count of
\* the first book named selected_book.
FrameSelectChapter ==
    /\ frame_pc = "idle"
    /\ LET IsSelected(b) == b.name = selected_book
           b == find_first(bible, IsSelected, 1)
       IN  /\ b # 0
           /\ \E chapter_num \in 1..Len(bible[b].chapters) : selected_chapter' = chapter_num
    /\ frame_pc' = "drawn"
    /\ frame_click' = None
    /\ UNCHANGED << selected_book, chapter_text, current_chapter_verses,
                    search_query, search_results, navigate_to >>
    /\ UNCHANGED << overflow_checks, bible, parseVars, loadVars, queryVars >>

\* "Go" is clicked: update_chapter_display().
FrameGo ==
    /\ frame_pc = "idle"
    /\ LET d == update_chapter_display(bible, selected_book, selected_chapter) IN
        /\ current_chapter_verses' = d.current_chapter_verses
        /\ chapter_text' = d.chapter_text
    /\ frame_pc' = "drawn"
    /\ frame_click' = None
    /\ UNCHANGED << selected_book, selected_chapter, search_query, search_results,
                    navigate_to >>
    /\ UNCHANGED << overflow_checks, bible, parseVars, loadVars, queryVars >>

\* The user edits the search box.
FrameEditQuery ==
    /\ frame_pc = "idle"
    /\ \E q \in UIQueries : search_query' = q
    /\ frame_pc' = "drawn"
    /\ frame_click' = None
    /\ UNCHANGED << selected_book, selected_chapter, chapter_text, current_chapter_verses,
                    search_results, navigate_to >>
    /\ UNCHANGED << overflow_checks, bible, parseVars, loadVars, queryVars >>

\* "Search" is clicked: the results are cloned into search_results.
FrameSearch ==
    /\ frame_pc = "idle"
    /\ search_results' = clone_results(bible, search(bible, search_query))
    /\ frame_pc' = "drawn"
    /\ frame_click' = None
    /\ UNCHANGED << selected_book, selected_chapter, chapter_text, current_chapter_verses,
                    search_query, navigate_to >>
    /\ UNCHANGED << overflow_checks, bible, parseVars, loadVars, queryVars >>

\* A search result is clicked while the list is drawn: the target is stored.
FrameClickResult ==
    /\ frame_pc = "idle"
    /\ \E k \in 1..Len(search_results) :
        /\ navigate_to' = Some(<<search_results[k].book, search_results[k].chapter>>)
        /\ frame_click' = Some(search_results[k])
    /\ frame_pc' = "drawn"
    /\ UNCHANGED << selected_book, selected_chapter, chapter_text, current_chapter_verses,
                    search_query, search_results >>
    /\ UNCHANGED << overflow_checks, bible, parseVars, loadVars, queryVars >>

\* Mutant of FrameEnd: the selection moves and the display is not refreshed.
FrameEnd_stale ==
    /\ frame_pc = "drawn"
    /\ IF navigate_to.some
       THEN /\ selected_book' = navigate_to.val[1]
            /\ selected_chapter' = navigate_to.val[2]
            /\ UNCHANGED << current_chapter_verses, chapter_text >>
       ELSE UNCHANGED << selected_book, selected_chapter, chapter_text,
                         current_chapter_verses >>
    /\ navigate_to' = None
    /\ frame_pc' = "idle"
    /\ UNCHANGED << search_query, search_results, frame_click >>
    /\ UNCHANGED << overflow_checks, bible, parseVars, loadVars, queryVars >>

\* The end of update: if let Some((book, chapter)) = self.navigate_to.take().
FrameEnd ==
    /\ frame_pc = "drawn"
    /\ IF navigate_to.some
       THEN LET d == update_chapter_display(bible, navigate_to.val[1], navigate_to.val[2]) IN
            /\ selected_book' = navigate_to.val[1]
            /\ selected_chapter' = navigate_to.val[2]
            /\ current_chapter_verses' = d.current_chapter_verses
            /\ chapter_text' = d.chapter_text
       ELSE UNCHANGED << selected_book, selected_chapter, chapter_text,
                         current_chapter_verses >>
    /\ navigate_to' = None
    /\ frame_pc' = "idle"
    /\ UNCHANGED << search_query, search_results, frame_click >>
    /\ UNCHANGED << overflow_checks, bible, parseVars, loadVars, queryVars >>

NextUI ==
    \/ NextLoad
    \/ AppStart
    \/ FrameNoInput
    \/ FrameSelectBook
    \/ FrameSelectChapter
    \/ FrameGo
    \/ FrameEditQuery
    \/ FrameSearch
    \/ FrameClickResult
    \/ FrameEnd

SpecUI == InitUI /\ [][NextUI]_vars

(***************************************************************************)
(* Properties of parse_book_file (SpecParse).                              *)
(***************************************************************************)
\* The shape <chapter>:<verse><space><content>, read off the characters: the
\* line has a space, and a ':' before its first space.
HasSpace(line) == \E i \in 1..Len(line) : line[i] = " "

FirstSpace(line) ==
    CHOOSE i \in 1..Len(line) : line[i] = " " /\ \A j \in 1..(i - 1) : line[j] # " "

HasColonInToken(line) == \E k \in 1..(FirstSpace(line) - 1) : line[k] = ":"

FirstColon(line) ==
    CHOOSE i \in 1..Len(line) : line[i] = ":" /\ \A j \in 1..(i - 1) : line[j] # ":"

WellShaped(lr) == lr.ok /\ HasSpace(lr.line) /\ HasColonInToken(lr.line)

\* The record a well-shaped line stands for.
RecordOf(lr) ==
    LET line == lr.line
        sp   == FirstSpace(line)
        co   == FirstColon(line)
    IN  [chapter_number |-> unwrap_or(parse_u32(SubSeq(line, 1, co - 1)), 0),
         verse_number   |-> unwrap_or(parse_u32(SubSeq(line, co + 1, sp - 1)), 0),
         content        |-> SubSeq(line, sp + 1, Len(line))]

\* The lines the loop has consumed, and the records among them, in file order.
Consumed == SubSeq(file, 1, line_idx)

Records(lines) ==
    LET ws == SelectSeq(lines, WellShaped) IN [i \in 1..Len(ws) |-> RecordOf(ws[i])]

MaxChapter(recs) ==
    IF recs = <<>> THEN 0
    ELSE CHOOSE m \in { recs[i].chapter_number : i \in 1..Len(recs) } :
            \A i \in 1..Len(recs) : recs[i].chapter_number <= m

\* The verses the records of chapter k make, in file order.
VersesOf(recs, name, k) ==
    LET IsK(r) == r.chapter_number = k
        rk == SelectSeq(recs, IsK)
    IN  [i \in 1..Len(rk) |->
            [book |-> name, chapter |-> k, verse_number |-> rk[i].verse_number,
             text |-> rk[i].content]]

\* C3 (gap filling): after any prefix of lines whose records all have
\* chapter_number >= 1, the work has exactly N chapters, N the largest
\* chapter_number seen (0 if none); the chapter at position i is numbered i;
\* chapter k holds exactly the records of chapter k, in file order, so a
\* chapter number with no record is an empty placeholder.  The loop stops
\* early on no line but a record of chapter 0.
C3_GapFilling ==
    LET recs == Records(Consumed) IN
    /\ (\A i \in 1..Len(recs) : recs[i].chapter_number >= 1) =>
          /\ Len(book.chapters) = MaxChapter(recs)
          /\ \A k \in 1..Len(book.chapters) :
              /\ book.chapters[k].number = k
              /\ book.chapters[k].verses = VersesOf(recs, book.name, k)
    /\ pstate = "panic" =>
          /\ WellShaped(file[line_idx + 1])
          /\ RecordOf(file[line_idx + 1]).chapter_number = 0

\* The file is the single line "3:1 Ab": three chapters, the first two empty
\* and the third with one verse.
C3_Witness ==
    /\ pstate = "done"
    /\ file = <<LineOk(L_3_1)>>
    /\ Len(book.chapters) = 3
    /\ book.chapters[1].verses = <<>>
    /\ book.chapters[2].verses = <<>>
    /\ Len(book.chapters[3].verses) = 1

\* C4 (malformed line tolerance): a line that cannot be read or has not the
\* shape <chapter>:<verse><space><content> changes nothing and does not stop
\* the parsing: at every point the work equals the work parsed from the
\* consumed lines with those lines removed, and the loop only ever stops
\* early on a well-shaped line.
C4_MalformedTolerance ==
    LET kept == SelectSeq(Consumed, WellShaped)
        r    == parse_lines(Book(book.name, book.testament, <<>>), kept, 0, overflow_checks)
    IN  /\ ~r.panic
        /\ book = r.book
        /\ pstate = "panic" => WellShaped(file[line_idx + 1])
        /\ pstate = "done" => line_idx = Len(file)

\* "garbage te:xt", an unreadable line, then "1:1 In it": exactly one verse.
C4_Witness ==
    /\ pstate = "done"
    /\ file = <<LineOk(L_garbage), LineErr, LineOk(L_1_1)>>
    /\ book.chapters =
         <<[number |-> 1,
            verses |-> <<[book |-> "Genesis", chapter |-> 1, verse_number |-> 1,
                          text |-> <<"I", "n", " ", "i", "t">>]>>]>>

\* C8 (chapter 0): a record whose chapter_number is 0 leaves the work
\* unchanged, and the parsing goes on with the next line; the index
\* computation never aborts the load.
C8_ZeroChapterDropped ==
    [][ ( /\ pstate = "parsing"
          /\ line_idx < Len(file)
          /\ WellShaped(file[line_idx + 1])
          /\ RecordOf(file[line_idx + 1]).chapter_number = 0 )
        => ( /\ book' = book
             /\ pstate' = "parsing"
             /\ line_idx' = line_idx + 1 ) ]_vars

\* The "Warning: Malformed verse" lines printed so far, by line number.
IsMalformedDiag(d) == d.kind = "malformed"

MalformedWarnings == SelectSeq(stderr, IsMalformedDiag)

Count(lines, Test(_)) == Cardinality({ i \in 1..Len(lines) : Test(lines[i]) })

FailsShape(lr) == lr.ok /\ ~WellShaped(lr)

SpaceButNoColon(lr) == lr.ok /\ HasSpace(lr.line) /\ ~HasColonInToken(lr.line)

IsWorkFile(e) == ~e.err /\ e.is_file /\ ~(e.stem = ".DS_Store" /\ e.ext = "")

\* The works in load order: division A's enumeration, then division B's.
WorksOf(dir, testament) ==
    LET es == SelectSeq(dir.entries, IsWorkFile) IN
    [i \in 1..Len(es) |->
        parse_book_file(es[i].lines, es[i].stem, testament, overflow_checks).book]

LoadOrder == WorksOf(fs.old, "Old") \o WorksOf(fs.new, "New")

InTable(name) == \E i \in 1..Len(StandardBooks) : StandardBooks[i] = name

TablePos(name) == CHOOSE i \in 1..Len(StandardBooks) : StandardBooks[i] = name

\* Two names of the same rank: the same table entry, or both outside the table.
SameRank(a, b) == IF InTable(a) THEN a = b ELSE ~InTable(b)

\* C2 (canonical order): after from_directories succeeds, whatever the
\* enumeration order, every work in the table precedes every work outside
\* it, the works in the table are in table order, and the works of one rank
\* (one name, or the unknown names) keep their load order.
C2_CanonicalOrder ==
    load_result.tag = "ok" =>
        LET bs == load_result.books IN
        /\ Len(bs) = Len(LoadOrder)
        /\ \A i, j \in 1..Len(bs) : i < j =>
              /\ InTable(bs[j].name) => InTable(bs[i].name)
              /\ InTable(bs[j].name) => TablePos(bs[i].name) <= TablePos(bs[j].name)
        /\ \A k \in 1..Len(bs) :
              LET Same(b) == SameRank(bs[k].name, b.name) IN
              SelectSeq(bs, Same) = SelectSeq(LoadOrder, Same)

\* Exodus enumerated before Genesis: Genesis comes first in the corpus.
C2_Witness ==
    /\ load_result.tag = "ok"
    /\ Len(fs.old.entries) = 2
    /\ fs.old.entries[1].stem = "Exodus"
    /\ fs.old.entries[2].stem = "Genesis"
    /\ Len(load_result.books) = 2
    /\ load_result.books[1].name = "Genesis"
    /\ load_result.books[2].name = "Exodus"

\* What aborts the load: a directory that cannot be enumerated (position 0
\* of its division), an entry that cannot be read, a work file that cannot
\* be opened.
Fatal(e) == e.err \/ (IsWorkFile(e) /\ ~e.openable)

FatalIn(dir, testament) ==
    (IF dir.readable THEN {} ELSE { <<testament, 0>> })
    \cup { <<testament, i>> : i \in { k \in 1..Len(dir.entries) : Fatal(dir.entries[k]) } }

FatalPositions == FatalIn(fs.old, "Old") \cup FatalIn(fs.new, "New")

Before(p, q) == (p[1] = "Old" /\ q[1] = "New") \/ (p[1] = q[1] /\ p[2] < q[2])

\* C7 (fatal errors): if a directory cannot be enumerated or a work file
\* cannot be opened, from_directories returns an IO error and no corpus, and
\* no file after the failure is opened.
C7_FatalAbortsLoad ==
    (lpc = "done" /\ FatalPositions # {}) =>
        /\ load_result.tag = "io_error"
        /\ \A k \in 1..Len(opened) : ~\E q \in FatalPositions : Before(q, opened[k])

(***************************************************************************)
(* Properties of the queries (SpecQuery).                                  *)
(***************************************************************************)
Min(S) == CHOOSE x \in S : \A y \in S : x <= y

Called(op) == q_call.some /\ q_call.val.op = op

\* Every verse of the corpus, as a reference.
AllVerses ==
    UNION { UNION { { <<b, c, v>> : v \in 1..Len(bible[b].chapters[c].verses) } :
                    c \in 1..Len(bible[b].chapters) } :
            b \in 1..Len(bible) }

\* Corpus traversal order: works, then chapters, then verses, in stored order.
TraversedBefore(r, t) ==
    \/ r[1] < t[1]
    \/ r[1] = t[1] /\ r[2] < t[2]
    \/ r[1] = t[1] /\ r[2] = t[2] /\ r[3] < t[3]

\* p occurs in t as a run of consecutive characters.
IsSubstring(p, t) ==
    \E i \in 0..Len(t) : \E n \in 0..(Len(t) - i) : SubSeq(t, i + 1, i + n) = p

LoweredTextContains(r, q) ==
    IsSubstring(to_lowercase(q), to_lowercase(bible[r[1]].chapters[r[2]].verses[r[3]].text))

\* C1 (search): search(q) returns exactly the verses whose lower-cased text
\* contains the lower-cased q: every result is such a verse, every such verse
\* is returned exactly once, the results are in corpus traversal order, and
\* search("") returns every verse.
C1_SearchExact ==
    Called("search") =>
        LET q == q_call.val.query IN
        /\ \A k \in 1..Len(q_result) :
              q_result[k] \in AllVerses /\ LoweredTextContains(q_result[k], q)
        /\ \A r \in AllVerses :
              LoweredTextContains(r, q) =>
                  Cardinality({ k \in 1..Len(q_result) : q_result[k] = r }) = 1
        /\ \A k, l \in 1..Len(q_result) :
              k < l => TraversedBefore(q_result[k], q_result[l])
        /\ q = <<>> => Len(q_result) = Cardinality(AllVerses)

\* search("aB") finds "Ab" in the third chapter of the second work.
C1_Witness ==
    /\ Called("search")
    /\ q_call.val.query = <<"a", "B">>
    /\ \E k \in 1..Len(q_result) :
          /\ q_result[k][1] = 2
          /\ q_result[k][2] = 3
          /\ verse_at(bible, q_result[k]).text = <<"A", "b">>

WorksNamed(name) == { w \in 1..Len(bible) : bible[w].name = name }

\* C5 as stated: for every work w and every c in [1, chapters of w],
\* get_chapter(w.name, c) returns a chapter, and it is w's own chapter c: its
\* verses are the ones loaded from w's file for chapter c.
C5_EveryWorkOwnChapter ==
    Called("get_chapter") =>
        \A w \in WorksNamed(q_call.val.book_name) :
            q_call.val.chapter \in 1..Len(bible[w].chapters) =>
                /\ q_result.some
                /\ bible[q_result.val[1]].chapters[q_result.val[2]]
                     = bible[w].chapters[q_call.val.chapter]

\* C5 as amended: get_chapter(name, c) looks at the first work of that name
\* only: for that work w and c in [1, chapters of w] it returns w's own
\* chapter numbered c; it is 'not found' when that work has no chapter c,
\* whatever a later work of the same name holds.
C5_FirstWorkOwnChapter ==
    Called("get_chapter") =>
        LET named == WorksNamed(q_call.val.book_name)
            c     == q_call.val.chapter
        IN  IF named = {} THEN q_result = None
            ELSE IF c \in 1..Len(bible[Min(named)].chapters)
            THEN /\ q_result = Some(<<Min(named), c>>)
                 /\ bible[Min(named)].chapters[c].number = c
            ELSE q_result = None

\* Two works named alike: the chapter returned is the first one's.
C5_Witness ==
    /\ Called("get_chapter")
    /\ Len(bible) >= 2
    /\ bible[1].name = q_call.val.book_name
    /\ bible[2].name = q_call.val.book_name
    /\ q_result = Some(<<1, 1>>)

ChaptersNumbered(w, c) ==
    { k \in 1..Len(bible[w].chapters) : bible[w].chapters[k].number = c }

VersesNumbered(w, k, v) ==
    { i \in 1..Len(bible[w].chapters[k].verses) :
        bible[w].chapters[k].verses[i].verse_number = v }

\* The first verse numbered v of the first chapter numbered c of work w.
FirstVerseIn(w, c, v) ==
    LET k == Min(ChaptersNumbered(w, c)) IN
    IF VersesNumbered(w, k, v) = {} THEN None
    ELSE Some(<<w, k, Min(VersesNumbered(w, k, v))>>)

\* C6 as stated: get_verse resolves by first match at every level: the first
\* work of the name decides, and the result is 'not found' when that work
\* has no chapter numbered c.
C6_FirstMatchEveryLevel ==
    Called("get_verse") =>
        LET named == WorksNamed(q_call.val.book_name)
            c     == q_call.val.chapter
            v     == q_call.val.verse
        IN  IF named = {} THEN q_result = None
            ELSE IF ChaptersNumbered(Min(named), c) = {} THEN q_result = None
            ELSE q_result = FirstVerseIn(Min(named), c, v)

(***************************************************************************)
(* Properties of the reader UI (SpecUI).                                   *)
(***************************************************************************)
Shows(verse) == \E k \in 1..Len(current_chapter_verses) : current_chapter_verses[k] = verse

\* C10 as stated: at the end of every frame navigate_to is None, and at the
\* end of a frame in which a result was clicked the selection is the clicked
\* result's book and chapter and the chapter shown is the one that contains
\* the clicked verse, never "Chapter not found".
C10_ClickShowsClickedChapter ==
    /\ frame_pc = "idle" => ~navigate_to.some
    /\ (frame_pc = "idle" /\ frame_click.some) =>
          /\ selected_book = frame_click.val.book
          /\ selected_chapter = frame_click.val.chapter
          /\ chapter_text # ChapterNotFound
          /\ Shows(frame_click.val)

\* Between the widgets and the end of the frame a click has only been
\* recorded; at the end of the frame it has been carried out on the first
\* work of the clicked result's name.
C10_EndOfFrame ==
    /\ frame_pc = "idle" => ~navigate_to.some
    /\ (frame_pc = "drawn" /\ frame_click.some) =>
          navigate_to = Some(<<frame_click.val.book, frame_click.val.chapter>>)
    /\ (frame_pc = "idle" /\ frame_click.some) =>
          LET named == WorksNamed(frame_click.val.book)
              c     == frame_click.val.chapter
          IN  /\ selected_book = frame_click.val.book
              /\ selected_chapter = c
              /\ named # {}
              /\ IF c \in 1..Len(bible[Min(named)].chapters)
                 THEN /\ current_chapter_verses = bible[Min(named)].chapters[c].verses
                      /\ chapter_text # ChapterNotFound
                 ELSE /\ current_chapter_verses = <<>>
                      /\ chapter_text = ChapterNotFound
              /\ Cardinality(named) = 1 =>
                    /\ Shows(frame_click.val)
                    /\ chapter_text # ChapterNotFound

\* The step that records a click changes neither the selection nor the
\* chapter shown.
C10_ClickOnlyRecords ==
    (frame_pc = "idle" /\ frame_pc' = "drawn" /\ frame_click'.some) =>
        UNCHANGED << selected_book, selected_chapter, chapter_text, current_chapter_verses >>

\* C10 as amended: a click on a search result only records navigate_to while
\* the list is drawn; at the end of every frame navigate_to is None; at the
\* end of a frame in which a result was clicked the selection is the clicked
\* result's book and chapter, and the chapter shown is the chapter of that
\* number of the FIRST work of that name: the chapter that contains the
\* clicked verse when no other work bears the name, and "Chapter not found"
\* when that first work has no such chapter.
C10_DeferredNavigation == []C10_EndOfFrame /\ [][C10_ClickOnlyRecords]_vars

\* A click on a result of chapter 3 while chapter 1 is shown: the frame ends
\* with chapter 3 of that work selected and shown.
C10_Witness ==
    /\ frame_pc = "idle"
    /\ frame_click.some
    /\ frame_click.val.chapter = 3
    /\ selected_book = frame_click.val.book
    /\ selected_chapter = 3
    /\ Len(current_chapter_verses) = 2
    /\ Shows(frame_click.val)

=============================================================================
